---- MODULE Spec2Model ----
(***************************************************************************)
(* Model of nativ_mcp/server.py: the NativClient HTTP binding, the MCP     *)
(* tool and resource handlers, and the upstream service as the environment *)
(* that answers each outbound HTTP request.                                *)
(*                                                                         *)
(* A Python str is a sequence of tokens (characters or literal chunks of   *)
(* an f-string); the line break is the token NL.  Python values that may   *)
(* be None, and JSON values of an upstream payload, are tagged records.    *)
(* String literals are ASCII: "->" stands for U+2192 and "-" in            *)
(* FormatTranslate for U+2014.                                             *)
(***************************************************************************)
EXTENDS Integers, Sequences, FiniteSets, TLC

VARIABLES env, inv

vars == <<env, inv>>

(***************************************************************************)
(* Bounds of the model.                                                    *)
(***************************************************************************)
\* longest texts list handed to translate_batch
MaxBatch == 3
\* longest texts list when two invocations run concurrently
MaxConcBatch == 1

(***************************************************************************)
(* Python / JSON values.                                                   *)
(***************************************************************************)
NL == "\n"
PyNone == [t |-> "None"]
PyStr(s) == [t |-> "str", s |-> s]
PyInt(n) == [t |-> "int", n |-> n]
PyBool(b) == [t |-> "bool", b |-> b]
PyDict(d) == [t |-> "dict", d |-> d]
PyList(l) == [t |-> "list", l |-> l]
\* the dict literal {}
EmptyDict == PyDict(<<>>)

\* Python truthiness (bool(v))
Truthy(v) ==
  CASE v.t = "None" -> FALSE
    [] v.t = "str" -> Len(v.s) > 0
    [] v.t = "int" -> v.n # 0
    [] v.t = "bool" -> v.b
    [] v.t = "dict" -> DOMAIN v.d # {}
    [] v.t = "list" -> Len(v.l) > 0

\* dict.get(k, default)
Get(v, k, default) == IF k \in DOMAIN v.d THEN v.d[k] ELSE default

\* "x or None" for a str argument
OrNone(s) == IF Len(s) > 0 THEN PyStr(s) ELSE PyNone

\* str(v) / f"{v}" / f"{v:.0f}" on the values the model uses
Fmt(v) ==
  CASE v.t = "str" -> v.s
    [] v.t = "int" -> <<ToString(v.n)>>
    [] v.t = "None" -> <<"None">>
    [] v.t = "bool" -> IF v.b THEN <<"True">> ELSE <<"False">>

\* "\n".join(parts)
RECURSIVE Join(_)
Join(parts) ==
  IF Len(parts) = 0 THEN <<>>
  ELSE IF Len(parts) = 1 THEN parts[1]
  ELSE parts[1] \o <<NL>> \o Join(Tail(parts))

\* s.rstrip("/")
RECURSIVE RStripSlash(_)
RStripSlash(s) ==
  IF Len(s) > 0 /\ s[Len(s)] = "/" THEN RStripSlash(SubSeq(s, 1, Len(s) - 1)) ELSE s

(***************************************************************************)
(* NativClient                                                             *)
(***************************************************************************)
DEFAULT_API_URL == <<"https://api.usenativ.com">>

\* NativClient.__init__
NativClient(api_key, base_url) ==
  [base_url |-> RStripSlash(IF Truthy(base_url) THEN base_url.s ELSE DEFAULT_API_URL),
   headers |-> [XAPIKey |-> api_key.s,
                ContentType |-> "application/json",
                UserAgent |-> "nativ-mcp/0.1.0"]]

NoClient == [base_url |-> <<>>,
             headers |-> [XAPIKey |-> <<>>, ContentType |-> "", UserAgent |-> ""]]

\* the arguments of client.request in NativClient._request
HttpRequest(client, method, path, json_body, params) ==
  [method |-> method,
   url |-> client.base_url \o <<path>>,
   headers |-> client.headers,
   json |-> json_body,
   params |-> params]

\* a body literal that lists context with the fixed keys
TranslateBodyKeysAll(language_code, context, glossary, formality, max_characters) ==
  {"text", "language", "source_language", "source_language_code", "tool",
   "include_tm_info", "backtranslate", "include_rationale", "context"}
  \cup (IF Truthy(language_code) THEN {"language_code"} ELSE {})
  \cup (IF Truthy(glossary) THEN {"glossary"} ELSE {})
  \cup (IF Truthy(formality) THEN {"formality"} ELSE {})
  \cup (IF max_characters # PyNone THEN {"max_characters"} ELSE {})

\* keys of the body NativClient.translate builds
TranslateBodyKeys(language_code, context, glossary, formality, max_characters) ==
  {"text", "language", "source_language", "source_language_code", "tool",
   "include_tm_info", "backtranslate", "include_rationale"}
  \cup (IF Truthy(language_code) THEN {"language_code"} ELSE {})
  \cup (IF Truthy(context) THEN {"context"} ELSE {})
  \cup (IF Truthy(glossary) THEN {"glossary"} ELSE {})
  \cup (IF Truthy(formality) THEN {"formality"} ELSE {})
  \cup (IF max_characters # PyNone THEN {"max_characters"} ELSE {})

\* NativClient.translate: the request it hands to _request.  a is the record
\* of its keyword arguments.
ClientTranslate(client, a) ==
  LET keys == TranslateBodyKeys(a.language_code, a.context, a.glossary,
                                a.formality, a.max_characters)
      body == [k \in keys |->
                 CASE k = "text" -> PyStr(a.text)
                   [] k = "language" -> PyStr(a.language)
                   [] k = "source_language" -> PyStr(a.source_language)
                   [] k = "source_language_code" -> PyStr(a.source_language_code)
                   [] k = "tool" -> PyStr(<<"api">>)
                   [] k = "include_tm_info" -> PyBool(a.include_tm_info)
                   [] k = "backtranslate" -> PyBool(a.backtranslate)
                   [] k = "include_rationale" -> PyBool(a.include_rationale)
                   [] k = "language_code" -> a.language_code
                   [] k = "context" -> a.context
                   [] k = "glossary" -> a.glossary
                   [] k = "formality" -> a.formality
                   [] k = "max_characters" -> a.max_characters]
  IN HttpRequest(client, "POST", "/text/culturalize", PyDict(body), PyNone)

\* NativClient.get_languages
ClientGetLanguages(client) ==
  HttpRequest(client, "GET", "/user/languages", PyNone, PyNone)

\* NativClient.search_tm
ClientSearchTm(client, query, source_lang, target_lang, score_cutoff, limit) ==
  LET keys == {"query", "source_lang", "score_cutoff", "limit"}
              \cup (IF Truthy(target_lang) THEN {"target_lang"} ELSE {})
      params == [k \in keys |->
                   CASE k = "query" -> PyStr(query)
                     [] k = "source_lang" -> PyStr(source_lang)
                     [] k = "score_cutoff" -> PyInt(score_cutoff)
                     [] k = "limit" -> PyInt(limit)
                     [] k = "target_lang" -> target_lang]
  IN HttpRequest(client, "GET", "/master-tm/fuzzy-search", PyNone, PyDict(params))

\* NativClient.list_tm_entries
ClientListTmEntries(client, source_lang, target_lang, search, limit, offset) ==
  LET keys == {"limit", "offset"}
              \cup (IF Truthy(source_lang) THEN {"source_lang"} ELSE {})
              \cup (IF Truthy(target_lang) THEN {"target_lang"} ELSE {})
              \cup (IF Truthy(search) THEN {"search"} ELSE {})
      params == [k \in keys |->
                   CASE k = "limit" -> PyInt(limit)
                     [] k = "offset" -> PyInt(offset)
                     [] k = "source_lang" -> source_lang
                     [] k = "target_lang" -> target_lang
                     [] k = "search" -> search]
  IN HttpRequest(client, "GET", "/master-tm/entries", PyNone, PyDict(params))

\* NativClient.add_tm_entry
ClientAddTmEntry(client, source_text, target_text, source_language_code, target_language_code, source_name) ==
  LET keys == {"source_text", "target_text", "source_language_code",
               "target_language_code", "information_source"}
              \cup (IF Truthy(source_name) THEN {"source_name"} ELSE {})
      body == [k \in keys |->
                 CASE k = "source_text" -> PyStr(source_text)
                   [] k = "target_text" -> PyStr(target_text)
                   [] k = "source_language_code" -> PyStr(source_language_code)
                   [] k = "target_language_code" -> PyStr(target_language_code)
                   [] k = "information_source" -> PyStr(<<"manual">>)
                   [] k = "source_name" -> source_name]
  IN HttpRequest(client, "POST", "/master-tm/entries", PyDict(body), PyNone)

\* NativClient.get_tm_stats
ClientGetTmStats(client) ==
  HttpRequest(client, "GET", "/master-tm/stats", PyNone, PyNone)

\* NativClient.list_style_guides
ClientListStyleGuides(client) ==
  HttpRequest(client, "GET", "/style-guide", PyNone, PyNone)

\* NativClient.get_brand_prompt
ClientGetBrandPrompt(client) ==
  HttpRequest(client, "GET", "/style-guide/prompt", PyNone, PyNone)

\* NativClient.get_combined_prompt
ClientGetCombinedPrompt(client) ==
  HttpRequest(client, "GET", "/style-guide/combined", PyNone, PyNone)

(***************************************************************************)
(* Errors.  type is the Python exception class, msg is str(e).             *)
(***************************************************************************)
NoErr == [type |-> "none", msg |-> <<>>]
\* raised by _get_client when NATIV_API_KEY is missing or empty
ConfigurationError ==
  [type |-> "RuntimeError",
   msg |-> <<"NATIV_API_KEY environment variable is required. ",
             "Create one at https://dashboard.usenativ.com -> Settings -> API Keys">>]
\* raised by _request on status 402
InsufficientCredits ==
  [type |-> "RuntimeError",
   msg |-> <<"Insufficient Nativ credits. Top up at https://dashboard.usenativ.com">>]
\* raised by resp.raise_for_status() on any other status outside 2xx
UpstreamError(status) ==
  [type |-> "HTTPStatusError", msg |-> <<"HTTP status ", ToString(status)>>]
\* raised by client.request on a timeout, DNS failure or connection reset
TransportError == [type |-> "TransportError", msg |-> <<"transport fault">>]
\* raised by resp.json() on a body that is not JSON
DecodeError == [type |-> "JSONDecodeError", msg |-> <<"invalid JSON body">>]

(***************************************************************************)
(* What the upstream service does with one HTTP request.                   *)
(***************************************************************************)
PAYMENT_REQUIRED == 402
Answer(status, payload) ==
  [fault |-> FALSE, status |-> status, decodes |-> TRUE, payload |-> payload]
Garbled(status) ==
  [fault |-> FALSE, status |-> status, decodes |-> FALSE, payload |-> PyNone]
Fault == [fault |-> TRUE, status |-> 0, decodes |-> FALSE, payload |-> PyNone]

Raise(e) == [ok |-> FALSE, value |-> PyNone, err |-> e]
Return(v) == [ok |-> TRUE, value |-> v, err |-> NoErr]

\* resp.raise_for_status(): nothing on 2xx, HTTPStatusError otherwise
IsSuccess(status) == status >= 200 /\ status <= 299

\* _request without the status_code == 402 branch
RequestOutcomePlain(o) ==
  IF o.fault THEN Raise(TransportError)
  ELSE IF ~IsSuccess(o.status) THEN Raise(UpstreamError(o.status))
  ELSE IF ~o.decodes THEN Raise(DecodeError)
  ELSE Return(o.payload)

\* NativClient._request after client.request came back with outcome o
RequestOutcome(o) ==
  IF o.fault THEN Raise(TransportError)
  ELSE IF o.status = PAYMENT_REQUIRED THEN Raise(InsufficientCredits)
  ELSE IF ~IsSuccess(o.status) THEN Raise(UpstreamError(o.status))
  ELSE IF ~o.decodes THEN Raise(DecodeError)
  ELSE Return(o.payload)

(***************************************************************************)
(* translate and translate_batch                                           *)
(***************************************************************************)
\* the keyword arguments translate passes to client.translate
TranslateCall(a) ==
  [text |-> a.text,
   language |-> a.target_language,
   language_code |-> OrNone(a.target_language_code),
   source_language |-> a.source_language,
   source_language_code |-> a.source_language_code,
   context |-> OrNone(a.context),
   glossary |-> OrNone(a.glossary),
   formality |-> OrNone(a.formality),
   max_characters |-> IF a.max_characters > 0 THEN PyInt(a.max_characters) ELSE PyNone,
   include_tm_info |-> TRUE,
   backtranslate |-> a.backtranslate,
   include_rationale |-> TRUE]

\* the keyword arguments translate_batch passes to client.translate for text
BatchCall(a, text) ==
  [text |-> text,
   language |-> a.target_language,
   language_code |-> OrNone(a.target_language_code),
   source_language |-> a.source_language,
   source_language_code |-> a.source_language_code,
   context |-> OrNone(a.context),
   glossary |-> PyNone,
   formality |-> OrNone(a.formality),
   max_characters |-> PyNone,
   include_tm_info |-> TRUE,
   backtranslate |-> FALSE,
   include_rationale |-> FALSE]

\* "if tm and tm.get("score", 0) >= 0"
TmRenderedNonNegative(tm) == Truthy(tm) /\ Get(tm, "score", PyInt(0)).n >= 0

\* "if tm and tm.get("score", 0) > 0"
TmRendered(tm) == Truthy(tm) /\ Get(tm, "score", PyInt(0)).n > 0

\* the text translate returns for a decoded payload
FormatTranslate(a, result) ==
  LET tm == Get(result, "tm_match", PyNone)
      head == <<"**Translation (">> \o a.target_language \o <<"):** ">>
              \o Fmt(Get(result, "translated_text", PyStr(<<>>)))
      match == IF TmRendered(tm)
               THEN << <<NL, "**TM Match:** ">> \o Fmt(tm.d["score"]) \o <<"% (">>
                       \o Fmt(Get(tm, "match_type", PyStr(<<"unknown">>)))
                       \o <<") - source: ">>
                       \o Fmt(Get(tm, "tm_source", PyStr(<<"N/A">>))) >>
                    \o (IF Truthy(Get(tm, "source_text", PyNone))
                        THEN << <<"  TM reference: \"">> \o Fmt(tm.d["source_text"])
                                \o <<"\" -> \"">>
                                \o Fmt(Get(tm, "target_text", PyStr(<<>>))) \o <<"\"">> >>
                        ELSE <<>>)
               ELSE <<>>
      back == IF Truthy(Get(result, "backtranslation", PyNone))
              THEN << <<NL, "**Back-translation:** ">> \o Fmt(result.d["backtranslation"]) >>
              ELSE <<>>
      rat == IF Truthy(Get(result, "rationale", PyNone))
             THEN << <<NL, "**Rationale:** ">> \o Fmt(result.d["rationale"]) >>
             ELSE <<>>
  IN Join(<<head>> \o match \o back \o rat)

\* f"{i}." in place of f"{i+1}."
BatchLineZeroBased(i, text, r) ==
  IF r.ok
  THEN <<ToString(i), ". \"">> \o text \o <<"\" -> \"">>
       \o Fmt(Get(r.value, "translated_text", PyStr(<<>>))) \o <<"\"">>
  ELSE <<ToString(i), ". \"">> \o text \o <<"\" -> ERROR: ">> \o r.err.msg

\* a failed item rendered as an empty translation
BatchLineSwallow(i, text, r) ==
  <<ToString(i + 1), ". \"">> \o text \o <<"\" -> \"">>
  \o (IF r.ok THEN Fmt(Get(r.value, "translated_text", PyStr(<<>>))) ELSE <<>>)
  \o <<"\"">>

\* the entry translate_batch appends for item i (0-based) whose call ended r
BatchLine(i, text, r) ==
  IF r.ok
  THEN LET tm == Get(r.value, "tm_match", PyNone)
           tm_note == IF TmRendered(tm)
                      THEN <<" (TM ">> \o Fmt(tm.d["score"]) \o <<"%)">>
                      ELSE <<>>
       IN <<ToString(i + 1), ". \"">> \o text \o <<"\" -> \"">>
          \o Fmt(Get(r.value, "translated_text", PyStr(<<>>))) \o <<"\"">> \o tm_note
  ELSE <<ToString(i + 1), ". \"">> \o text \o <<"\" -> ERROR: ">> \o r.err.msg

\* what translate_batch returns after its loop
BatchOutput(a, results) ==
  <<"**Batch translation to ">> \o a.target_language \o <<"** (">>
  \o <<ToString(Len(a.texts)), " items):", NL>> \o Join(results)

(***************************************************************************)
(* The other tools and the resources                                       *)
(***************************************************************************)
STYLE_GUIDE_LIMIT == 500
BRAND_PROMPT_LIMIT == 2000

\* s[:n]
Take(s, n) == SubSeq(s, 1, IF Len(s) < n THEN Len(s) ELSE n)

\* one bullet of search_translation_memory
MatchLine(m) ==
  <<"- **">> \o Fmt(m.d["score"]) \o <<"%** [">>
  \o Fmt(Get(m, "match_type", PyStr(<<>>))) \o <<"] \"">>
  \o Fmt(m.d["source_text"]) \o <<"\" -> \"">> \o Fmt(m.d["target_text"])
  \o <<"\" (source: ">> \o Fmt(Get(m, "information_source", PyStr(<<"N/A">>)))
  \o <<")">>

\* a search that orders the matches itself, best score first
FormatSearchSorted(a, result) ==
  LET matches == Get(result, "matches", PyList(<<>>))
      RECURSIVE ByScore(_)
      ByScore(l) ==
        IF Len(l) <= 1 THEN l
        ELSE LET k == CHOOSE k \in 1..Len(l) :
                        \A h \in 1..Len(l) : l[h].d["score"].n <= l[k].d["score"].n
             IN <<l[k]>> \o ByScore(SubSeq(l, 1, k - 1) \o SubSeq(l, k + 1, Len(l)))
  IN IF ~Truthy(matches)
     THEN <<"No translation memory matches found for \"">> \o a.query \o <<"\".">>
     ELSE LET sorted == ByScore(matches.l)
          IN Join(<< <<"**TM Search Results** for \"">> \o a.query \o <<"\" (">>
                     \o <<ToString(Len(sorted)), " matches):", NL>> >>
                  \o [j \in 1..Len(sorted) |-> MatchLine(sorted[j])])

\* the text search_translation_memory returns for a decoded payload
FormatSearch(a, result) ==
  LET matches == Get(result, "matches", PyList(<<>>))
  IN IF ~Truthy(matches)
     THEN <<"No translation memory matches found for \"">> \o a.query \o <<"\".">>
     ELSE Join(<< <<"**TM Search Results** for \"">> \o a.query \o <<"\" (">>
                  \o <<ToString(Len(matches.l)), " matches):", NL>> >>
               \o [j \in 1..Len(matches.l) |-> MatchLine(matches.l[j])])

\* the text add_translation_memory_entry returns
FormatAdd(a, result) ==
  <<"Added TM entry: \"">> \o a.source_text \o <<"\" (">> \o a.source_language_code
  \o <<") -> \"">> \o a.target_text \o <<"\" (">> \o a.target_language_code \o <<")">>

\* stands for the backquote, which the lexer does not take in a string
TICK == "'"

\* one entry of get_languages
LanguageLine(lang) ==
  LET f == Get(lang, "formality", PyNone)
      formality == IF Truthy(f) THEN f ELSE PyStr(<<"neutral">>)
      first == <<"- **">> \o Fmt(lang.d["language"]) \o <<"** (", TICK>>
               \o Fmt(lang.d["language_code"]) \o <<TICK, ") - formality: ">>
               \o Fmt(formality)
  IN Join(<<first>>
          \o (IF Truthy(Get(lang, "custom_style", PyNone))
              THEN << <<"  Custom style: ">> \o Fmt(lang.d["custom_style"]) >>
              ELSE <<>>))

\* the text get_languages returns for a decoded payload
FormatLanguages(a, result) ==
  LET languages == Get(result, "languages", PyList(<<>>))
  IN IF ~Truthy(languages)
     THEN <<"No languages configured. Set up languages at https://dashboard.usenativ.com">>
     ELSE Join(<< <<"**Configured Languages** (", ToString(Len(languages.l)), "):", NL>> >>
               \o [j \in 1..Len(languages.l) |-> LanguageLine(languages.l[j])])

\* source_labels.get(src, src)
SourceLabel(src) ==
  CASE src = "brand_voice" -> "Brand Voice"
    [] src = "phrase_tm" -> "Phrase TM"
    [] src = "phrase_tb" -> "Phrase Term Base"
    [] src = "user_glossary" -> "User Glossary"
    [] src = "approved" -> "Approved Translations"
    [] src = "manual" -> "Manual Entries"
    [] OTHER -> src

\* the text get_translation_memory_stats returns; a JSON object that is
\* iterated carries the order of its keys in the field keys
FormatStats(a, stats) ==
  LET by_source == Get(stats, "by_source", [t |-> "dict", d |-> <<>>, keys |-> <<>>])
      head == << <<"**Translation Memory Statistics:**", NL>>,
                 <<"- Total entries: ">> \o Fmt(Get(stats, "total", PyInt(0))),
                 <<"- Enabled: ">> \o Fmt(Get(stats, "enabled", PyInt(0))),
                 <<"- Disabled: ">> \o Fmt(Get(stats, "disabled", PyInt(0))) >>
      row(src) == LET counts == by_source.d[src]
                  IN <<"- ", SourceLabel(src), ": ">>
                     \o Fmt(Get(counts, "total", PyInt(0))) \o <<" entries (">>
                     \o Fmt(Get(counts, "enabled", PyInt(0))) \o <<" enabled)">>
  IN Join(head
          \o (IF Truthy(by_source)
              THEN << <<NL, "**By Source:**">> >>
                   \o [j \in 1..Len(by_source.keys) |-> row(by_source.keys[j])]
              ELSE <<>>))

\* the lines get_style_guides appends for one guide
RECURSIVE GuideLines(_)
GuideLines(guides) ==
  IF Len(guides) = 0 THEN <<>>
  ELSE LET g == guides[1]
           status == IF Truthy(Get(g, "is_enabled", PyNone)) THEN "enabled" ELSE "disabled"
           c == Get(g, "content", PyStr(<<>>)).s
           content == IF Len(c) > STYLE_GUIDE_LIMIT
                      THEN Take(c, STYLE_GUIDE_LIMIT) \o <<"...">>
                      ELSE c
       IN << <<"### ">> \o Fmt(Get(g, "title", PyStr(<<"Untitled">>)))
             \o <<" (", status, ")">>,
             content,
             <<>> >>
          \o GuideLines(Tail(guides))

\* the text get_style_guides returns for a decoded payload
FormatStyleGuides(a, result) ==
  LET guides == Get(result, "guides", PyList(<<>>))
  IN IF ~Truthy(guides)
     THEN <<"No custom style guides configured. Create them at https://dashboard.usenativ.com -> Settings -> Style Guides">>
     ELSE Join(<< <<"**Style Guides** (", ToString(Len(guides.l)), "):", NL>> >>
               \o GuideLines(guides.l))

\* a brand voice rendering that already cuts a prompt of exactly the limit
FormatBrandVoiceEager(a, result) ==
  IF ~Truthy(Get(result, "exists", PyNone))
  THEN <<"No brand voice prompt configured. Set one up at https://dashboard.usenativ.com -> Settings -> Style Guides">>
  ELSE LET prompt == Get(result, "prompt", PyStr(<<>>)).s
       IN IF Len(prompt) >= BRAND_PROMPT_LIMIT
          THEN <<"**Brand Voice Prompt:**", NL, NL>> \o Take(prompt, BRAND_PROMPT_LIMIT)
               \o <<"...", NL, NL, "(Truncated - full prompt has ">>
               \o <<ToString(Len(prompt)), " characters)">>
          ELSE <<"**Brand Voice Prompt:**", NL, NL>> \o prompt

\* the text get_brand_voice returns for a decoded payload
FormatBrandVoice(a, result) ==
  IF ~Truthy(Get(result, "exists", PyNone))
  THEN <<"No brand voice prompt configured. Set one up at https://dashboard.usenativ.com -> Settings -> Style Guides">>
  ELSE LET prompt == Get(result, "prompt", PyStr(<<>>)).s
       IN IF Len(prompt) > BRAND_PROMPT_LIMIT
          THEN <<"**Brand Voice Prompt:**", NL, NL>> \o Take(prompt, BRAND_PROMPT_LIMIT)
               \o <<"...", NL, NL, "(Truncated - full prompt has ">>
               \o <<ToString(Len(prompt)), " characters)">>
          ELSE <<"**Brand Voice Prompt:**", NL, NL>> \o prompt

\* _fmt_json(data): the document json.dumps writes for data, kept as one token
\* that names the value and the options of the call
FmtJson(data) == <<[dumps |-> data, indent |-> 2, ensure_ascii |-> FALSE]>>

(***************************************************************************)
(* Configuration: the process environment read by _get_client.             *)
(***************************************************************************)
\* os.environ.get("NATIV_API_KEY", "") with no check of the value
GetClientLenient(e) ==
  [ok |-> TRUE,
   client |-> NativClient(IF Truthy(e.NATIV_API_KEY) THEN e.NATIV_API_KEY
                          ELSE PyStr(<<>>), e.NATIV_API_URL),
   err |-> NoErr]

\* _get_client(): a NativClient, or the RuntimeError for a missing key
GetClient(e) ==
  IF ~Truthy(e.NATIV_API_KEY)
  THEN [ok |-> FALSE, client |-> NoClient, err |-> ConfigurationError]
  ELSE [ok |-> TRUE, client |-> NativClient(e.NATIV_API_KEY, e.NATIV_API_URL),
        err |-> NoErr]

(***************************************************************************)
(* The catalog: tools and resources registered on the FastMCP server.      *)
(***************************************************************************)
Tools ==
  {"translate", "translate_batch", "search_translation_memory",
   "add_translation_memory_entry", "get_languages", "get_translation_memory_stats",
   "get_style_guides", "get_brand_voice"}
Resources ==
  {"resource_languages", "resource_style_guides", "resource_brand_prompt",
   "resource_tm_stats"}
Handlers == Tools \cup Resources

\* the request a handler's (next) Upstream Client call issues; i is the number
\* of batch items already handled
HandlerRequest(op, client, a, i) ==
  CASE op = "translate" -> ClientTranslate(client, TranslateCall(a))
    [] op = "translate_batch" -> ClientTranslate(client, BatchCall(a, a.texts[i + 1]))
    [] op = "search_translation_memory" ->
         ClientSearchTm(client, a.query, a.source_language_code,
                        OrNone(a.target_language_code), a.min_score, a.limit)
    [] op = "add_translation_memory_entry" ->
         ClientAddTmEntry(client, a.source_text, a.target_text, a.source_language_code,
                          a.target_language_code, OrNone(a.name))
    [] op \in {"get_languages", "resource_languages"} -> ClientGetLanguages(client)
    [] op \in {"get_translation_memory_stats", "resource_tm_stats"} ->
         ClientGetTmStats(client)
    [] op \in {"get_style_guides", "resource_style_guides"} ->
         ClientListStyleGuides(client)
    [] op \in {"get_brand_voice", "resource_brand_prompt"} ->
         ClientGetBrandPrompt(client)

\* the text a single-call handler returns for a decoded payload
HandlerFormat(op, a, result) ==
  CASE op = "translate" -> FormatTranslate(a, result)
    [] op = "search_translation_memory" -> FormatSearch(a, result)
    [] op = "add_translation_memory_entry" -> FormatAdd(a, result)
    [] op = "get_languages" -> FormatLanguages(a, result)
    [] op = "get_translation_memory_stats" -> FormatStats(a, result)
    [] op = "get_style_guides" -> FormatStyleGuides(a, result)
    [] op = "get_brand_voice" -> FormatBrandVoice(a, result)
    [] op \in Resources -> FmtJson(result)

(***************************************************************************)
(* One invocation of a handler by the host dispatcher.                     *)
(***************************************************************************)
Slots == {1, 2}
NoArgs == [none |-> TRUE]
NoOut == [kind |-> "none", text |-> <<>>, err |-> NoErr]
Returned(text) == [kind |-> "returned", text |-> text, err |-> NoErr]
Raised(e) == [kind |-> "raised", text |-> <<>>, err |-> e]

Idle ==
  [pc |-> "idle", op |-> "none", args |-> NoArgs, client |-> NoClient,
   i |-> 0, results |-> <<>>, calls |-> 0, sent |-> <<>>, got |-> <<>>,
   open |-> 0, out |-> NoOut]

\* a handler without the try/except: every upstream error propagates
CaughtNever(op, r) == FALSE

\* "except httpx.HTTPError" in place of "except Exception"
CaughtHttpOnly(op, r) == op = "translate_batch" /\ r.err.type # "RuntimeError"

\* "try: ... except Exception" around the upstream call: only translate_batch
\* has one
Caught(op, r) == op = "translate_batch"

\* a _request that closes its transport client only on the way that returns
AExitOnReturn(open, r) == IF r.ok THEN open - 1 ELSE open

\* leaving the "async with httpx.AsyncClient(...)" block of _request, whose
\* body ended as r (a return or a raise): the client opened on entry is
\* closed; open counts the transport clients the invocation holds
AExit(open, r) == open - 1

\* the invocation v after the HTTP call it awaits ended with outcome o:
\* _request maps o, then the handler runs to its next await or to its end
Handled(v, o) ==
  LET r == RequestOutcome(o)
      w == [v EXCEPT !.got = Append(@, o), !.open = AExit(@, r)]
  IN IF v.op = "translate_batch"
     THEN IF r.ok \/ Caught(v.op, r)
          THEN [w EXCEPT !.results = Append(@, BatchLine(v.i, v.args.texts[v.i + 1], r)),
                         !.i = @ + 1,
                         !.pc = "ready"]
          ELSE [w EXCEPT !.out = Raised(r.err), !.pc = "done"]
     ELSE IF r.ok
          THEN [w EXCEPT !.out = Returned(HandlerFormat(v.op, v.args, r.value)),
                         !.pc = "done"]
          ELSE [w EXCEPT !.out = Raised(r.err), !.pc = "done"]

\* the dispatcher resolves a request to a catalog entry and calls it
Dispatch(p, op, a) ==
  /\ inv[p].pc = "idle"
  /\ inv' = [inv EXCEPT ![p] = [Idle EXCEPT !.pc = "start", !.op = op, !.args = a]]
  /\ UNCHANGED env

\* "client = _get_client()", the first statement of every handler
Begin(p) ==
  /\ inv[p].pc = "start"
  /\ LET c == GetClient(env)
     IN inv' = [inv EXCEPT ![p] =
                  IF c.ok THEN [@ EXCEPT !.client = c.client, !.pc = "ready"]
                  ELSE [@ EXCEPT !.out = Raised(c.err), !.pc = "done"]]
  /\ UNCHANGED env

\* the handler calls an Upstream Client operation, whose _request issues
\* client.request and awaits it
Call(p) ==
  /\ inv[p].pc = "ready"
  /\ inv[p].op = "translate_batch" => inv[p].i < Len(inv[p].args.texts)
  /\ inv' = [inv EXCEPT ![p] =
               [@ EXCEPT !.calls = @ + 1,
                         !.sent = Append(@, HandlerRequest(inv[p].op, inv[p].client,
                                                           inv[p].args, inv[p].i)),
                         !.open = @ + 1,
                         !.pc = "await"]]
  /\ UNCHANGED env

\* _request with one more attempt after a transport fault
RespondRetry(p, o) ==
  /\ inv[p].pc = "await"
  /\ inv' = [inv EXCEPT ![p] =
               IF o.fault /\ Len(inv[p].sent) = inv[p].calls
               THEN [@ EXCEPT !.sent = Append(@, @[Len(@)]), !.got = Append(@, o)]
               ELSE Handled(inv[p], o)]
  /\ UNCHANGED env

\* a module-level response cache keyed by handler: the answer another running
\* invocation of the same handler got last is used in place of o
RespondCached(p, o) ==
  /\ inv[p].pc = "await"
  /\ LET others == {q \in DOMAIN inv : q # p /\ inv[q].op = inv[p].op /\ Len(inv[q].got) > 0}
         seen == IF others = {} THEN o
                 ELSE LET q == CHOOSE q \in others : TRUE IN inv[q].got[Len(inv[q].got)]
     IN inv' = [inv EXCEPT ![p] = [Handled(inv[p], seen) EXCEPT !.got = Append(inv[p].got, o)]]
  /\ UNCHANGED env

\* the awaited HTTP call ends with outcome o
Respond(p, o) ==
  /\ inv[p].pc = "await"
  /\ inv' = [inv EXCEPT ![p] = Handled(inv[p], o)]
  /\ UNCHANGED env

\* translate_batch leaves its loop and returns
BatchReturn(p) ==
  /\ inv[p].pc = "ready"
  /\ inv[p].op = "translate_batch"
  /\ inv[p].i = Len(inv[p].args.texts)
  /\ inv' = [inv EXCEPT ![p] =
               [@ EXCEPT !.out = Returned(BatchOutput(inv[p].args, inv[p].results)),
                         !.pc = "done"]]
  /\ UNCHANGED env

\* the dispatcher takes the result or the exception; nothing is kept
Complete(p) ==
  /\ inv[p].pc = "done"
  /\ inv' = [inv EXCEPT ![p] = Idle]
  /\ UNCHANGED env

(***************************************************************************)
(* Inputs: the environments, arguments and upstream outcomes explored.     *)
(***************************************************************************)
EnvSet ==
  {[NATIV_API_KEY |-> PyNone, NATIV_API_URL |-> PyNone],
   [NATIV_API_KEY |-> PyStr(<<>>), NATIV_API_URL |-> PyNone],
   [NATIV_API_KEY |-> PyStr(<<"k">>), NATIV_API_URL |-> PyNone],
   [NATIV_API_KEY |-> PyStr(<<"k">>), NATIV_API_URL |-> PyStr(<<"https://h", "/", "/">>)]}

TextSet == {<<"a">>, <<"b", NL, "c">>}
SeqsUpTo(n, S) == UNION {[1..k -> S] : k \in 0..n}

TranslateArgs ==
  [text : TextSet, target_language : {<<"French">>},
   target_language_code : {<<>>, <<"fr">>},
   source_language : {<<"English">>}, source_language_code : {<<"en">>},
   context : {<<>>, <<"ui">>}, glossary : {<<>>, <<"g">>},
   formality : {<<>>, <<"formal">>}, max_characters : {-1, 0, 5},
   backtranslate : BOOLEAN]

BatchOpts ==
  {[target_language_code |-> <<>>, context |-> <<>>, formality |-> <<>>],
   [target_language_code |-> <<"fr">>, context |-> <<"ui">>, formality |-> <<"formal">>]}

BatchArgs(n) ==
  {[texts |-> ts, target_language |-> <<"French">>,
    target_language_code |-> o.target_language_code,
    source_language |-> <<"English">>, source_language_code |-> <<"en">>,
    context |-> o.context, formality |-> o.formality]
   : ts \in SeqsUpTo(n, TextSet), o \in BatchOpts}

TmFull ==
  PyDict([score |-> PyInt(87), match_type |-> PyStr(<<"fuzzy">>),
          tm_source |-> PyStr(<<"manual">>), source_text |-> PyStr(<<"s">>),
          target_text |-> PyStr(<<"t">>)])
TmScore(n) == PyDict([score |-> PyInt(n)])

\* payloads of POST /text/culturalize
PlainPayload == PyDict([translated_text |-> PyStr(<<"x">>)])
FullPayload ==
  PyDict([translated_text |-> PyStr(<<"x">>), tm_match |-> TmFull,
          backtranslation |-> PyStr(<<"y">>), rationale |-> PyStr(<<"r">>)])
ZeroPayload == PyDict([tm_match |-> TmScore(0)])
NegativePayload == PyDict([translated_text |-> PyStr(<<"x">>), tm_match |-> TmScore(-1)])
TranslatePayloads ==
  {PlainPayload, FullPayload, ZeroPayload, NegativePayload,
   PyDict([translated_text |-> PyStr(<<"x">>), tm_match |-> PyNone,
           backtranslation |-> PyStr(<<>>), rationale |-> PyNone]),
   PyDict([translated_text |-> PyStr(<<"x">>), tm_match |-> EmptyDict]),
   PyDict([translated_text |-> PyStr(<<"x">>),
           tm_match |-> PyDict([match_type |-> PyStr(<<"exact">>)])]),
   PyDict([translated_text |-> PyStr(<<"x">>), tm_match |-> TmScore(1)])}

\* a str of n characters
Chars(n) == [j \in 1..n |-> IF j % 2 = 0 THEN "q" ELSE "p"]

SearchArgs ==
  [query : {<<"q">>}, source_language_code : {<<"en">>},
   target_language_code : {<<>>, <<"fr">>}, min_score : {0, 70}, limit : {10}]
AddArgs ==
  [source_text : {<<"a">>}, target_text : {<<"x">>}, source_language_code : {<<"en">>},
   target_language_code : {<<"fr-FR">>}, name : {<<>>, <<"hero">>}]

\* payloads of GET /master-tm/fuzzy-search
ExactMatch ==
  PyDict([score |-> PyInt(95), match_type |-> PyStr(<<"exact">>),
          source_text |-> PyStr(<<"a">>), target_text |-> PyStr(<<"x">>),
          information_source |-> PyStr(<<"manual">>)])
BareMatch ==
  PyDict([score |-> PyInt(71), source_text |-> PyStr(<<"b">>),
          target_text |-> PyStr(<<"y">>)])
SearchPayloads ==
  {EmptyDict, PyDict([matches |-> PyList(<<>>)]),
   PyDict([matches |-> PyList(<<ExactMatch>>)]),
   PyDict([matches |-> PyList(<<BareMatch, ExactMatch>>)]),
   PyDict([matches |-> PyList(<<ExactMatch, BareMatch>>)])}

\* payloads of GET /user/languages
LanguagesPayloads ==
  {EmptyDict,
   PyDict([languages |-> PyList(<<
     PyDict([language |-> PyStr(<<"French">>), language_code |-> PyStr(<<"fr">>),
             formality |-> PyStr(<<"formal">>), custom_style |-> PyStr(<<"vous">>)]),
     PyDict([language |-> PyStr(<<"German">>), language_code |-> PyStr(<<"de">>),
             formality |-> PyNone])>>)])}

\* payloads of GET /master-tm/stats
StatsPayloads ==
  {EmptyDict,
   PyDict([total |-> PyInt(3), enabled |-> PyInt(2), disabled |-> PyInt(1)]),
   PyDict([total |-> PyInt(3), enabled |-> PyInt(2), disabled |-> PyInt(1),
           by_source |->
             [t |-> "dict", keys |-> <<"manual", "imported">>,
              d |-> [manual |-> PyDict([total |-> PyInt(1), enabled |-> PyInt(1)]),
                     imported |-> PyDict([total |-> PyInt(2)])]]])}

\* payloads of GET /style-guide
StyleGuidesPayloads ==
  {PyDict([guides |-> PyList(<<>>)]),
   PyDict([guides |-> PyList(<<
     PyDict([title |-> PyStr(<<"Tone">>),
             content |-> PyStr(Chars(STYLE_GUIDE_LIMIT + 1)),
             is_enabled |-> PyBool(TRUE)]),
     PyDict([content |-> PyStr(Chars(STYLE_GUIDE_LIMIT))])>>)])}

\* payloads of GET /style-guide/prompt
BrandPromptPayloads ==
  {PyDict([exists |-> PyBool(FALSE)]),
   PyDict([exists |-> PyBool(TRUE)]),
   PyDict([exists |-> PyBool(TRUE), prompt |-> PyStr(Chars(3))]),
   PyDict([exists |-> PyBool(TRUE), prompt |-> PyStr(Chars(BRAND_PROMPT_LIMIT))]),
   PyDict([exists |-> PyBool(TRUE), prompt |-> PyStr(Chars(BRAND_PROMPT_LIMIT + 1))])}

Failures == {Answer(PAYMENT_REQUIRED, PyNone), Answer(500, PyNone), Garbled(200), Fault}

\* the decoded payloads the upstream service may return to a handler's call
Payloads(op) ==
  CASE op = "translate" -> TranslatePayloads
    [] op = "translate_batch" ->
         {PlainPayload, FullPayload, ZeroPayload, NegativePayload}
    [] op = "search_translation_memory" -> SearchPayloads
    [] op = "add_translation_memory_entry" -> {PyDict([id |-> PyInt(7)])}
    [] op \in {"get_languages", "resource_languages"} -> LanguagesPayloads
    [] op \in {"get_translation_memory_stats", "resource_tm_stats"} -> StatsPayloads
    [] op \in {"get_style_guides", "resource_style_guides"} -> StyleGuidesPayloads
    [] op \in {"get_brand_voice", "resource_brand_prompt"} -> BrandPromptPayloads

\* the outcomes the upstream service may give a handler's call
Outcomes(op) ==
  IF op \in Handlers
  THEN {Answer(200, pl) : pl \in Payloads(op)} \cup Failures
       \cup (IF op = "translate"
             THEN {Answer(404, PyNone), Garbled(PAYMENT_REQUIRED)} ELSE {})
  ELSE {}

\* the arguments the dispatcher may supply
ArgsOf(op) ==
  CASE op = "translate" -> TranslateArgs
    [] op = "translate_batch" -> BatchArgs(MaxBatch)
    [] op = "search_translation_memory" -> SearchArgs
    [] op = "add_translation_memory_entry" -> AddArgs
    [] OTHER -> {NoArgs}

(***************************************************************************)
(* Specification: one invocation at a time.                                *)
(***************************************************************************)
Init ==
  /\ env \in EnvSet
  /\ inv = [p \in Slots |-> Idle]

Next ==
  \E p \in {1} :
    \/ \E op \in Handlers : \E a \in ArgsOf(op) : Dispatch(p, op, a)
    \/ Begin(p)
    \/ Call(p)
    \/ \E o \in Outcomes(inv[p].op) : Respond(p, o)
    \/ BatchReturn(p)
    \/ Complete(p)

Spec == Init /\ [][Next]_vars

(***************************************************************************)
(* Specification: two invocations in flight at once, as the dispatcher may *)
(* run them, over fewer inputs.                                            *)
(***************************************************************************)
ConcArgs(op) ==
  CASE op = "translate" ->
         {a \in TranslateArgs :
            /\ a.target_language_code = <<>> /\ a.context = <<>> /\ a.glossary = <<>>
            /\ a.formality = <<>> /\ a.max_characters = 0 /\ ~a.backtranslate}
    [] op = "translate_batch" ->
         {a \in BatchArgs(MaxConcBatch) : a.context = <<>>}
    [] op = "search_translation_memory" ->
         {a \in SearchArgs : a.min_score = 0 /\ a.target_language_code = <<>>}
    [] op = "add_translation_memory_entry" -> {a \in AddArgs : a.name = <<>>}
    [] OTHER -> {NoArgs}

ConcOutcomes(op) ==
  IF op \in Handlers
  THEN {Answer(200, pl) :
          pl \in Payloads(op) \cap
                 {PlainPayload, FullPayload, EmptyDict,
                  PyDict([matches |-> PyList(<<ExactMatch>>)]),
                  PyDict([id |-> PyInt(7)]),
                  PyDict([total |-> PyInt(3), enabled |-> PyInt(2), disabled |-> PyInt(1)]),
                  PyDict([guides |-> PyList(<<>>)]),
                  PyDict([exists |-> PyBool(FALSE)]),
                  PyDict([exists |-> PyBool(TRUE), prompt |-> PyStr(Chars(3))]),
                  PyDict([exists |-> PyBool(TRUE),
                          prompt |-> PyStr(Chars(BRAND_PROMPT_LIMIT))]),
                  PyDict([exists |-> PyBool(TRUE),
                          prompt |-> PyStr(Chars(BRAND_PROMPT_LIMIT + 1))])}}
       \cup {Answer(PAYMENT_REQUIRED, PyNone), Fault}
  ELSE {}

NextConc ==
  \E p \in Slots :
    \/ \E op \in Handlers : \E a \in ConcArgs(op) : Dispatch(p, op, a)
    \/ Begin(p)
    \/ Call(p)
    \/ \E o \in ConcOutcomes(inv[p].op) : Respond(p, o)
    \/ BatchReturn(p)
    \/ Complete(p)

SpecConc == Init /\ [][NextConc]_vars

(***************************************************************************)
(* Properties                                                              *)
(***************************************************************************)
Range(q) == {q[j] : j \in 1..Len(q)}
StartsWith(q, pre) == Len(q) >= Len(pre) /\ SubSeq(q, 1, Len(pre)) = pre

\* text.splitlines(): the lines of a text whose line break is the token NL
RECURSIVE SplitLines(_)
SplitLines(q) ==
  IF Len(q) = 0 THEN <<>>
  ELSE IF \E j \in 1..Len(q) : q[j] = NL
       THEN LET j == CHOOSE j \in 1..Len(q) : q[j] = NL /\ \A h \in 1..(j - 1) : q[h] # NL
            IN <<SubSeq(q, 1, j - 1)>> \o SplitLines(SubSeq(q, j + 1, Len(q)))
       ELSE <<q>>

IsBatch(p) == inv[p].op = "translate_batch"
HasClient(p) == inv[p].client # NoClient
\* the upstream call answered by o ended in a decoded 2xx response
Succeeded(o) == ~o.fault /\ o.status \in 200..299 /\ o.decodes
\* the head of item k's entry (k counts from 1)
EntryHead(k, text) == <<ToString(k), ". \"">> \o text
BatchHeader(a) ==
  <<"**Batch translation to ">> \o a.target_language
  \o <<"** (", ToString(Len(a.texts)), " items):", NL>>

\* C1: in translate_batch every item gets exactly one upstream translate call,
\* the calls are issued in input order with at most one in flight, and a failed
\* call neither ends the batch nor lets a later item go uncalled: the k-th
\* request carries the k-th text, and a batch that obtained its client ends
\* only by returning, after N calls and N answers.
C1_BatchCallsEveryItem ==
  \A p \in Slots : IsBatch(p) =>
    LET v == inv[p]
        n == Len(v.args.texts)
    IN /\ v.calls = Len(v.sent)
       /\ Len(v.sent) = v.i + (IF v.pc = "await" THEN 1 ELSE 0)
       /\ Len(v.got) = v.i
       /\ v.i <= n
       /\ \A k \in 1..Len(v.sent) : v.sent[k].json.d["text"] = PyStr(v.args.texts[k])
       /\ (v.pc = "done" /\ HasClient(p)) =>
            v.out.kind = "returned" /\ Len(v.sent) = n /\ Len(v.got) = n

\* C1 witness: a finished batch of three whose first call failed and whose
\* later items were still called
C1_Witness ==
  \E p \in Slots :
    /\ IsBatch(p) /\ inv[p].pc = "done" /\ Len(inv[p].args.texts) = 3
    /\ Len(inv[p].got) = 3 /\ ~Succeeded(inv[p].got[1]) /\ Succeeded(inv[p].got[3])
    /\ Len(inv[p].sent) = 3

\* C2 (as stated): the text translate_batch returns for N inputs has, after its
\* header line, exactly N lines, the k-th beginning with the index k.
C2_ExactlyNLines ==
  \A p \in Slots : (IsBatch(p) /\ inv[p].out.kind = "returned") =>
    LET lines == SplitLines(inv[p].out.text)
        n == Len(inv[p].args.texts)
    IN /\ Len(lines) = n + 1
       /\ \A k \in 1..n : StartsWith(lines[k + 1], <<ToString(k), ". \"">>)

\* C2 (amended): the returned text is the header followed by exactly N entries
\* joined by line breaks, the k-th beginning with the index k, however many
\* items failed; the entries are exactly N lines whenever none of them holds a
\* line break.
C2_NEntries ==
  \A p \in Slots : (IsBatch(p) /\ inv[p].out.kind = "returned") =>
    LET v == inv[p]
        n == Len(v.args.texts)
        lines == SplitLines(v.out.text)
    IN /\ Len(v.results) = n
       /\ v.out.text = BatchHeader(v.args) \o Join(v.results)
       /\ \A k \in 1..n : StartsWith(v.results[k], EntryHead(k, v.args.texts[k]))
       /\ (\A k \in 1..n : NL \notin Range(v.results[k])) =>
            /\ Len(lines) = n + 1
            /\ \A k \in 1..n : lines[k + 1] = v.results[k]

\* C2 witness: a returned batch of three with two failed items
C2_Witness ==
  \E p \in Slots :
    /\ IsBatch(p) /\ inv[p].out.kind = "returned" /\ Len(inv[p].args.texts) = 3
    /\ ~Succeeded(inv[p].got[1]) /\ ~Succeeded(inv[p].got[2]) /\ Succeeded(inv[p].got[3])
    /\ \A k \in 1..3 : NL \notin Range(inv[p].results[k])

\* C3: the entries of translate_batch stand in input order, and the k-th entry
\* is a success line (input -> output) exactly when the call for item k
\* succeeded and an ERROR: line with that call's error message exactly when
\* it failed; the returned text joins the entries in that order.
C3_EntriesMatchOutcomes ==
  \A p \in Slots : IsBatch(p) =>
    LET v == inv[p]
    IN /\ Len(v.results) = Len(v.got)
       /\ \A k \in 1..Len(v.results) :
            LET head == EntryHead(k, v.args.texts[k])
                ok == StartsWith(v.results[k], head \o <<"\" -> \"">>)
                bad == v.results[k] = head \o <<"\" -> ERROR: ">>
                                      \o RequestOutcome(v.got[k]).err.msg
            IN /\ ok <=> Succeeded(v.got[k])
               /\ bad <=> ~Succeeded(v.got[k])
       /\ v.out.kind = "returned" => v.out.text = BatchHeader(v.args) \o Join(v.results)

\* C3 witness: items 1 and 3 succeed, item 2 meets a transport fault
C3_Witness ==
  \E p \in Slots :
    /\ IsBatch(p) /\ inv[p].out.kind = "returned" /\ Len(inv[p].args.texts) = 3
    /\ inv[p].args.texts[1] # inv[p].args.texts[3]
    /\ Succeeded(inv[p].got[1]) /\ inv[p].got[2].fault /\ Succeeded(inv[p].got[3])

\* C4: a 402 answer to any handler's upstream call surfaces as the
\* insufficient-credits error and never as the generic status error: a
\* single-call handler ends raising it, translate_batch writes its message
\* into the entry of the item that met it.
C4_InsufficientCredits ==
  \A p \in Slots : \A k \in 1..Len(inv[p].got) :
    (~inv[p].got[k].fault /\ inv[p].got[k].status = PAYMENT_REQUIRED) =>
      IF IsBatch(p)
      THEN inv[p].results[k] = EntryHead(k, inv[p].args.texts[k])
                               \o <<"\" -> ERROR: ">> \o InsufficientCredits.msg
      ELSE /\ inv[p].pc = "done"
           /\ inv[p].out = Raised(InsufficientCredits)
           /\ inv[p].out.err.type # "HTTPStatusError"

\* C4 witness: a single-call handler other than translate answered with 402
C4_Witness ==
  \E p \in Slots :
    /\ inv[p].op = "get_brand_voice" /\ inv[p].pc = "done"
    /\ Len(inv[p].got) = 1 /\ inv[p].got[1].status = PAYMENT_REQUIRED

\* C5: every invocation of an Upstream Client operation issues exactly one
\* HTTP request whatever the outcome: the requests sent equal the operations
\* called, every answer ends its call, and a repeated input is requested again.
C5_OneRequestPerCall ==
  \A p \in Slots :
    LET v == inv[p]
    IN /\ Len(v.sent) = v.calls
       /\ Len(v.got) = Len(v.sent) - (IF v.pc = "await" THEN 1 ELSE 0)
       /\ v.calls = (IF IsBatch(p) THEN v.i + (IF v.pc = "await" THEN 1 ELSE 0)
                     ELSE IF v.pc \in {"await", "done"} /\ HasClient(p) THEN 1 ELSE 0)

\* C5 witness: a batch that asked twice for the same text, the first answer a
\* transport fault
C5_Witness ==
  \E p \in Slots :
    /\ IsBatch(p) /\ inv[p].pc = "done" /\ Len(inv[p].args.texts) = 2
    /\ inv[p].args.texts[1] = inv[p].args.texts[2]
    /\ Len(inv[p].sent) = 2 /\ Len(inv[p].got) = 2 /\ inv[p].got[1].fault

CredentialMissing ==
  env.NATIV_API_KEY = PyNone \/ env.NATIV_API_KEY = PyStr(<<>>)

\* C6 (as stated): the missing credential is fatal before any request is
\* served, so no operation, resource or batch item ever starts being handled
\* while the credential is missing: no handler has run its first statement.
C6_NothingServedWithoutCredential ==
  CredentialMissing => \A p \in Slots : inv[p].pc \in {"idle", "start"}

\* C6 (amended): the missing credential is an error each tool or resource
\* handler raises when it is invoked, before it makes any upstream call: a
\* handler that ran without the credential has ended with the configuration
\* error and no request, and every request sent carries the configured
\* credential to the configured base URL.
C6_NoCallWithoutCredential ==
  \A p \in Slots :
    LET v == inv[p]
    IN /\ (CredentialMissing /\ v.pc \notin {"idle", "start"}) =>
            /\ v.pc = "done" /\ v.out = Raised(ConfigurationError)
            /\ v.calls = 0 /\ v.sent = <<>> /\ v.results = <<>>
       /\ \A k \in 1..Len(v.sent) :
            /\ ~CredentialMissing
            /\ v.sent[k].headers.XAPIKey = env.NATIV_API_KEY.s
            /\ StartsWith(v.sent[k].url,
                          IF env.NATIV_API_URL = PyNone THEN DEFAULT_API_URL
                          ELSE <<"https://h">>)
            /\ Len(v.sent[k].url) = 2

\* C6 witness: a batch of two invoked without the credential has ended with
\* the configuration error
C6_Witness ==
  \E p \in Slots :
    /\ CredentialMissing /\ IsBatch(p) /\ Len(inv[p].args.texts) = 2
    /\ inv[p].pc = "done" /\ inv[p].out = Raised(ConfigurationError)

\* the optional keys of a translate body against the arguments of the call;
\* limitSet tells when max_characters counts as set
OptionalsFollowArguments(p, limitSet(_)) ==
  \A k \in 1..Len(inv[p].sent) :
    LET a == inv[p].args
        body == inv[p].sent[k].json.d
        isText(key, arg) ==
          /\ key \in DOMAIN body <=> arg # <<>>
          /\ key \in DOMAIN body => body[key] = PyStr(arg)
    IN /\ isText("language_code", a.target_language_code)
       /\ isText("context", a.context)
       /\ isText("formality", a.formality)
       /\ IF IsBatch(p)
          THEN "glossary" \notin DOMAIN body /\ "max_characters" \notin DOMAIN body
          ELSE /\ isText("glossary", a.glossary)
               /\ "max_characters" \in DOMAIN body <=> limitSet(a.max_characters)
               /\ "max_characters" \in DOMAIN body =>
                    body["max_characters"] = PyInt(a.max_characters)

IsTranslateCall(p) == inv[p].op \in {"translate", "translate_batch"}
NotSentinel(n) == n # 0
Positive(n) == n > 0

\* C7 (as stated): in every translate request body the key of an optional
\* parameter is present exactly when the parameter is not at its sentinel
\* ("" or 0), and then carries the argument.
C7_KeyIffNotSentinel ==
  \A p \in Slots : IsTranslateCall(p) => OptionalsFollowArguments(p, NotSentinel)

\* C7 (amended): the key of an optional text parameter is present exactly when
\* the argument is not "", and max_characters exactly when the argument is
\* greater than 0 (a negative limit is dropped like 0); a key that is present
\* carries the argument, never null or "".
C7_KeyIffSet ==
  \A p \in Slots : IsTranslateCall(p) =>
    /\ OptionalsFollowArguments(p, Positive)
    /\ \A k \in 1..Len(inv[p].sent) :
         \A key \in {"language_code", "context", "glossary", "formality", "max_characters"} :
           key \in DOMAIN inv[p].sent[k].json.d =>
             /\ inv[p].sent[k].json.d[key] # PyNone
             /\ inv[p].sent[k].json.d[key] # PyStr(<<>>)

\* C7 witness: translate called with every optional at its sentinel
C7_Witness ==
  \E p \in Slots :
    /\ inv[p].op = "translate" /\ Len(inv[p].sent) = 1
    /\ inv[p].args.target_language_code = <<>> /\ inv[p].args.context = <<>>
    /\ inv[p].args.glossary = <<>> /\ inv[p].args.formality = <<>>
    /\ inv[p].args.max_characters = 0

\* C8: a handler other than translate_batch whose upstream call fails ends
\* raising that call's error and returns no text; translate_batch raises no
\* error of an upstream call, and once it holds a client it ends only by
\* returning, after every item was handled.
C8_ErrorsPropagateExceptInBatch ==
  \A p \in Slots :
    LET v == inv[p]
    IN IF IsBatch(p)
       THEN /\ v.out.kind = "raised" => (v.out.err = ConfigurationError /\ v.sent = <<>>)
            /\ v.out.kind = "returned" => v.i = Len(v.args.texts)
            /\ (v.pc = "done" /\ HasClient(p)) => v.out.kind = "returned"
       ELSE /\ (Len(v.got) = 1 /\ ~Succeeded(v.got[1])) =>
                 /\ v.pc = "done" /\ v.out.kind = "raised" /\ v.out.text = <<>>
                 /\ v.out.err = RequestOutcome(v.got[1]).err
                 /\ v.out.err # NoErr
            /\ (Len(v.got) = 1 /\ Succeeded(v.got[1])) => v.out.kind = "returned"
            /\ v.results = <<>>

\* C8 witness: a batch whose two items both met 402 has returned
C8_Witness ==
  \E p \in Slots :
    /\ IsBatch(p) /\ inv[p].out.kind = "returned" /\ Len(inv[p].got) = 2
    /\ inv[p].got[1].status = PAYMENT_REQUIRED /\ inv[p].got[2].status = PAYMENT_REQUIRED

\* the payload holds a TM match with a score above 0
PositiveMatch(payload) ==
  /\ "tm_match" \in DOMAIN payload.d
  /\ payload.d["tm_match"].t = "dict"
  /\ "score" \in DOMAIN payload.d["tm_match"].d
  /\ payload.d["tm_match"].d["score"].n > 0

\* C10: translate renders the TM match annotation, and translate_batch the
\* TM score note, exactly when the payload holds a TM match with score > 0; a
\* match with score <= 0 is never rendered.
C10_MatchRenderedIffPositive ==
  \A p \in Slots :
    /\ (inv[p].op = "translate" /\ inv[p].out.kind = "returned") =>
         ("**TM Match:** " \in Range(inv[p].out.text)
            <=> PositiveMatch(inv[p].got[1].payload))
    /\ IsBatch(p) =>
         \A k \in 1..Len(inv[p].results) :
           Succeeded(inv[p].got[k]) =>
             (" (TM " \in Range(inv[p].results[k])
                <=> PositiveMatch(inv[p].got[k].payload))

\* C10 witness: translate returned for a payload whose TM match scores 0
C10_Witness ==
  \E p \in Slots :
    /\ inv[p].op = "translate" /\ inv[p].out.kind = "returned"
    /\ inv[p].got[1].payload = ZeroPayload

\* what an invocation of op with arguments a does when it runs alone in
\* environment e and its calls are answered by answers, in turn: the
\* requests of its first n calls, and its result
SoloSent(op, a, e, n) ==
  [k \in 1..n |-> HandlerRequest(op, GetClient(e).client, a, k - 1)]
SoloOut(op, a, e, answers) ==
  IF ~GetClient(e).ok THEN Raised(ConfigurationError)
  ELSE IF op = "translate_batch"
       THEN Returned(BatchOutput(a, [k \in 1..Len(a.texts) |->
                       BatchLine(k - 1, a.texts[k], RequestOutcome(answers[k]))]))
       ELSE LET r == RequestOutcome(answers[1])
            IN IF r.ok THEN Returned(HandlerFormat(op, a, r.value)) ELSE Raised(r.err)

IndependentNow ==
  \A p \in Slots :
    LET v == inv[p]
    IN v.pc \notin {"idle", "start"} =>
         /\ v.sent = SoloSent(v.op, v.args, env, v.calls)
         /\ v.pc = "done" => v.out = SoloOut(v.op, v.args, env, v.got)
         /\ v.pc # "done" => v.out = NoOut
OwnStateOnly ==
  \A p \in Slots : inv'[p] # inv[p] => \A q \in Slots \ {p} : inv'[q] = inv[q]

\* C9: under any interleaving of two running invocations, the requests an
\* invocation sends and the result it ends with are those of the same
\* invocation run alone on its own arguments, the configuration and the
\* answers to its own calls, and a step of one invocation changes nothing of
\* the other.
C9_Independent == [](IndependentNow) /\ [][OwnStateOnly]_vars

\* C9 witness: two invocations of the same handler are in flight together,
\* one already answered with a failure, the other ended with a result
C9_Witness ==
  /\ inv[1].op = "translate" /\ inv[2].op = "translate"
  /\ inv[1].args # inv[2].args
  /\ inv[1].pc = "done" /\ inv[1].out.kind = "raised" /\ Len(inv[1].got) = 1
  /\ inv[2].pc = "done" /\ inv[2].out.kind = "returned"

\* the matches of a search payload, in the order the upstream service sent them
UpstreamMatches(payload) ==
  IF "matches" \in DOMAIN payload.d /\ payload.d["matches"].t = "list"
  THEN payload.d["matches"].l
  ELSE <<>>
\* the positions of the bullet marker in a text, and the k-th of them
BulletAt(q) == {j \in 1..Len(q) : q[j] = "- **"}
NthBullet(q, k) ==
  CHOOSE j \in BulletAt(q) : Cardinality({h \in BulletAt(q) : h < j}) = k - 1

\* C11: search_translation_memory answered with no match returns exactly the
\* sentinel naming the query and no bullet; answered with n >= 1 matches it
\* returns n bullets, the k-th one rendering the k-th match of the payload, in
\* the order the upstream service sent them.
C11_SentinelOrBulletsInUpstreamOrder ==
  \A p \in Slots :
    (inv[p].op = "search_translation_memory" /\ inv[p].out.kind = "returned") =>
      LET ms == UpstreamMatches(inv[p].got[1].payload)
          text == inv[p].out.text
      IN IF Len(ms) = 0
         THEN /\ text = <<"No translation memory matches found for \"">>
                        \o inv[p].args.query \o <<"\".">>
              /\ BulletAt(text) = {}
         ELSE /\ Cardinality(BulletAt(text)) = Len(ms)
              /\ \A k \in 1..Len(ms) :
                   LET j == NthBullet(text, k)
                       bullet == <<"- **", ToString(ms[k].d["score"].n), "%** [">>
                                 \o Get(ms[k], "match_type", PyStr(<<>>)).s
                                 \o <<"] \"">> \o ms[k].d["source_text"].s
                                 \o <<"\" -> \"">> \o ms[k].d["target_text"].s
                   IN SubSeq(text, j, j + Len(bullet) - 1) = bullet

\* C11 witness: a search returned for a payload whose two matches arrive with
\* the lower score first
C11_Witness ==
  \E p \in Slots :
    /\ inv[p].op = "search_translation_memory" /\ inv[p].out.kind = "returned"
    /\ inv[p].got[1].payload = PyDict([matches |-> PyList(<<BareMatch, ExactMatch>>)])

\* the invocation in slot p is a get_brand_voice that returned for a payload
\* whose existence flag is set
BrandVoiceReturned(p) ==
  /\ inv[p].op = "get_brand_voice" /\ inv[p].out.kind = "returned"
  /\ "exists" \in DOMAIN inv[p].got[1].payload.d
  /\ inv[p].got[1].payload.d["exists"] = PyBool(TRUE)
\* the prompt text of the payload that answered slot p
UpstreamPrompt(p) ==
  IF "prompt" \in DOMAIN inv[p].got[1].payload.d
  THEN inv[p].got[1].payload.d["prompt"].s
  ELSE <<>>
TruncationMarks == {"...", "(Truncated - full prompt has "}

\* C12: get_brand_voice renders a prompt of 2001 or more characters as its
\* first 2000 characters, an ellipsis and a suffix giving the full character
\* count; it renders a prompt of 2000 or fewer characters in full, with no
\* ellipsis and no suffix; and two invocations answered with the same upstream
\* prompt end with identical output.
C12_TruncatesAbove2000 ==
  /\ \A p \in Slots :
       BrandVoiceReturned(p) =>
         LET prompt == UpstreamPrompt(p)
             text == inv[p].out.text
         IN /\ SubSeq(text, 1, 3) = <<"**Brand Voice Prompt:**", NL, NL>>
            /\ IF Len(prompt) >= 2001
               THEN /\ Len(text) = 3 + 2000 + 6
                    /\ SubSeq(text, 4, 2003) = SubSeq(prompt, 1, 2000)
                    /\ SubSeq(text, 2004, 2009) =
                         <<"...", NL, NL, "(Truncated - full prompt has ",
                           ToString(Len(prompt)), " characters)">>
               ELSE /\ SubSeq(text, 4, Len(text)) = prompt
                    /\ Range(text) \cap TruncationMarks = {}
  /\ \A p, q \in Slots :
       (/\ inv[p].op = "get_brand_voice" /\ inv[q].op = "get_brand_voice"
        /\ inv[p].pc = "done" /\ inv[q].pc = "done"
        /\ inv[p].got = inv[q].got)
       => inv[p].out = inv[q].out

\* C12 witness: get_brand_voice ran twice against the same prompt of 2001
\* characters and returned both times
C12_Witness ==
  /\ BrandVoiceReturned(1) /\ BrandVoiceReturned(2)
  /\ Len(UpstreamPrompt(1)) = 2001
  /\ inv[1].got = inv[2].got

\* C13: an invocation holds a transport connection exactly while one of its
\* upstream calls is in flight, and only that one: once the call has ended,
\* by a decoded response, a 402, another non-2xx status, an undecodable body
\* or a transport fault, the invocation holds none, between the items of a
\* translate_batch as well as after its last call.
C13_ConnectionHeldOnlyDuringCall ==
  \A p \in Slots :
    /\ inv[p].pc = "await" => inv[p].open = 1
    /\ inv[p].pc # "await" => inv[p].open = 0
    /\ inv[p].open = inv[p].calls - Len(inv[p].got)

\* C13 witness: a translate_batch stands between its second and third item
\* after a transport fault and an undecodable body, holding no connection
C13_Witness ==
  \E p \in Slots :
    /\ IsBatch(p) /\ inv[p].pc = "ready"
    /\ Len(inv[p].args.texts) = 3 /\ Len(inv[p].got) = 2
    /\ inv[p].got[1] = Fault /\ inv[p].got[2] = Garbled(200)
    /\ inv[p].open = 0

====
